---- MODULE Spec2Model ----
(***************************************************************************)
(* Ball path simulator (BallPathSimulator component) and SimulationModel.  *)
(*                                                                         *)
(* Numbers.  The component works on IEEE doubles.  Here lengths and        *)
(* velocities are fixed-point integers counted in twentieths (half a step  *)
(* of the speed sliders, so that a velocity below the 0.1 stop threshold   *)
(* can be nonzero): 0.3 is 6 and 635 is 12700.  A product or quotient that *)
(* is not a whole number of twentieths is rounded toward zero.  Energies   *)
(* are counted in 1/800 (= 1/(2*Unit^2)), which makes 0.5*m*v^2 and m*g*h  *)
(* exact.  The scorer works on exact fractions [n, d].                     *)
(***************************************************************************)
EXTENDS Integers, Sequences, FiniteSets, TLC

----------------------------------------------------------------------------
(* Simulation constants *)

Unit == 2 * 10                \* twentieths per unit of length
BALL_RADIUS == 15
BALL_MASS == 1
GRAVITY == (3 * Unit) \div 10  \* 0.3
GROUND_Y == 650
TOLERANCE_PERCENTAGE == 10
BUCKET_WIDTH == 80
BUCKET_HEIGHT == 60
CONTACT_MARGIN == 3           \* distance < BALL_RADIUS + 3
CURVE_STEPS == 30
LINE_STEP == 5                \* floor(distance / 5)
START_Y == 50                 \* let ballY = 50
STOP_SPEED == Unit \div 10    \* 0.1: Math.abs(v) < 0.1

EnergyDen == 2 * Unit * Unit  \* energies are counted in 1/EnergyDen

U(n) == n * Unit              \* a whole number of units

----------------------------------------------------------------------------
(* Arithmetic helpers *)

Abs(x) == IF x < 0 THEN -x ELSE x

Max(a, b) == IF a >= b THEN a ELSE b

Min(a, b) == IF a <= b THEN a ELSE b

\* a / b rounded toward zero (b # 0)
TDiv(a, b) ==
    LET q == Abs(a) \div Abs(b)
    IN  IF (a < 0) = (b < 0) THEN q ELSE -q

RECURSIVE GCD(_, _)
GCD(a, b) == IF b = 0 THEN a ELSE GCD(b, a % b)

\* floor(sqrt(n)) for n >= 0, by bisection on [lo, hi)
RECURSIVE SqrtIn(_, _, _)
SqrtIn(n, lo, hi) ==
    IF hi - lo <= 1 THEN lo
    ELSE LET mid == (lo + hi) \div 2
         IN  IF mid * mid <= n THEN SqrtIn(n, mid, hi) ELSE SqrtIn(n, lo, mid)

ISqrt(n) == SqrtIn(n, 0, 40000)

\* Fractions: [nan |-> FALSE, n |-> numerator, d |-> denominator > 0]; NaN is
\* a value of its own, as in JavaScript.
Rat(num, den) == [nan |-> FALSE, n |-> num, d |-> den]

NaN == [nan |-> TRUE, n |-> 0, d |-> 1]

\* an energy reading (in 1/EnergyDen) as a number
EnergyNum(e) == Rat(e, EnergyDen)

----------------------------------------------------------------------------
(* Prediction scorer *)

\* The text of a prediction field is a sequence of characters.
Digits == <<"0", "1", "2", "3", "4", "5", "6", "7", "8", "9">>

IsDigit(c) == \E i \in 1..10 : Digits[i] = c

DigitVal(c) == (CHOOSE i \in 1..10 : Digits[i] = c) - 1

\* length of the run of digits of s that starts at position i
RECURSIVE DigitRun(_, _)
DigitRun(s, i) ==
    IF i <= Len(s) /\ IsDigit(s[i]) THEN 1 + DigitRun(s, i + 1) ELSE 0

\* value of the digits s[i], ..., s[i + k - 1], most significant first
RECURSIVE DigitsValue(_, _, _)
DigitsValue(s, i, k) ==
    IF k = 0 THEN 0
    ELSE 10 * DigitsValue(s, i, k - 1) + DigitVal(s[i + k - 1])

RECURSIVE Pow10(_)
Pow10(k) == IF k = 0 THEN 1 ELSE 10 * Pow10(k - 1)

\* parseFloat: the longest prefix [sign] digits [. digits] with at least one
\* digit, what follows it being ignored; NaN when there is no such prefix.
\* (Leading blanks, exponents and "Infinity" are not modelled.)
ParseFloat(s) ==
    LET signed == Len(s) >= 1 /\ s[1] \in {"-", "+"}
        neg    == Len(s) >= 1 /\ s[1] = "-"
        i0     == IF signed THEN 2 ELSE 1
        ni     == DigitRun(s, i0)
        dot    == i0 + ni <= Len(s) /\ s[i0 + ni] = "."
        nf     == IF dot THEN DigitRun(s, i0 + ni + 1) ELSE 0
        mag    == DigitsValue(s, i0, ni) * Pow10(nf)
                    + DigitsValue(s, i0 + ni + 1, nf)
    IN  IF ni + nf = 0 THEN NaN
        ELSE Rat(IF neg THEN -mag ELSE mag, Pow10(nf))

\* variant of DiffNum with the sign of actual lost
DiffNumSum(predicted, actual) == predicted.n * actual.d + actual.n * predicted.d

\* numerator of predicted - actual and of actual over the common denominator
DiffNum(predicted, actual) == predicted.n * actual.d - actual.n * predicted.d

ActualNum(predicted, actual) == actual.n * predicted.d

\* variant of calculatePredictionAccuracy without Math.max(0, ...)
AccuracyDropFloor(predicted, actual) ==
    IF actual.n = 0
    THEN IF ~predicted.nan /\ predicted.n = 0 THEN Rat(1, 1) ELSE Rat(0, 1)
    ELSE IF predicted.nan THEN NaN
    ELSE Rat(Abs(ActualNum(predicted, actual)) - Abs(DiffNum(predicted, actual)),
             Abs(ActualNum(predicted, actual)))

\* calculatePredictionAccuracy.  The percentage is returned as the fraction
\* [n, d] of 100 it stands for: the accuracy is 100 * n / d percent.
calculatePredictionAccuracy(predicted, actual) ==
    IF actual.n = 0
    THEN IF ~predicted.nan /\ predicted.n = 0 THEN Rat(1, 1) ELSE Rat(0, 1)
    ELSE IF predicted.nan THEN NaN
    ELSE Rat(Max(0, Abs(ActualNum(predicted, actual))
                      - Abs(DiffNum(predicted, actual))),
             Abs(ActualNum(predicted, actual)))

\* variant of isPredictionCorrect with < in place of <=
IsCorrectStrict(predicted, actual) ==
    LET g == GCD(100, TOLERANCE_PERCENTAGE)
    IN  IF predicted.nan THEN FALSE
        ELSE IF actual.n = 0 THEN 10 * Abs(predicted.n) < predicted.d
        ELSE Abs(DiffNum(predicted, actual)) * (100 \div g)
               < (TOLERANCE_PERCENTAGE \div g) * Abs(ActualNum(predicted, actual))

\* isPredictionCorrect.  |x / a| * 100 <= T is compared as
\* |x| * (100 / g) <= (T / g) * |a| with g = gcd(100, T).
isPredictionCorrect(predicted, actual) ==
    LET g == GCD(100, TOLERANCE_PERCENTAGE)
    IN  IF predicted.nan THEN FALSE
        ELSE IF actual.n = 0 THEN 10 * Abs(predicted.n) < predicted.d
        ELSE Abs(DiffNum(predicted, actual)) * (100 \div g)
               <= (TOLERANCE_PERCENTAGE \div g) * Abs(ActualNum(predicted, actual))

----------------------------------------------------------------------------
(* Geometry: sampled path and closest approach *)

Pt(px, py) == [x |-> px, y |-> py]

\* Math.hypot, squared
Dist2(dx, dy) == dx * dx + dy * dy

\* steps of one pair of control points: max(floor(distance / 5), 1) on a
\* line, 30 on a curve
StepsOf(type, p1, p2) ==
    IF type = "line"
    THEN Max(ISqrt(Dist2(p2.x - p1.x, p2.y - p1.y)) \div U(LINE_STEP), 1)
    ELSE CURVE_STEPS

\* variant of Interpolate whose loop starts at t = 1
InterpolateFromOne(p1, p2, steps) ==
    [k \in 1..steps |->
        Pt(p1.x + TDiv((p2.x - p1.x) * k, steps),
           p1.y + TDiv((p2.y - p1.y) * k, steps))]

\* the points t = 0..steps of one pair, both ends included
Interpolate(p1, p2, steps) ==
    [k \in 1..(steps + 1) |->
        Pt(p1.x + TDiv((p2.x - p1.x) * (k - 1), steps),
           p1.y + TDiv((p2.y - p1.y) * (k - 1), steps))]

PairPoints(type, p1, p2) == Interpolate(p1, p2, StepsOf(type, p1, p2))

RECURSIVE SegmentPointsFrom(_, _)
SegmentPointsFrom(segment, i) ==
    IF i >= Len(segment.points) THEN <<>>
    ELSE PairPoints(segment.type, segment.points[i], segment.points[i + 1])
           \o SegmentPointsFrom(segment, i + 1)

RECURSIVE PathPointsFrom(_, _)
PathPointsFrom(p, s) ==
    IF s > Len(p) THEN <<>>
    ELSE SegmentPointsFrom(p[s], 1) \o PathPointsFrom(p, s + 1)

getPathPoints(p) == PathPointsFrom(p, 1)

\* [q, r] with a * b = q * c + r and 0 <= r < c, for 0 <= a <= c and b >= 0,
\* computed by halving b so that no intermediate value exceeds 2 * c
RECURSIVE MulDivQR(_, _, _)
MulDivQR(a, b, c) ==
    IF b = 0 THEN [q |-> 0, r |-> 0]
    ELSE LET h   == MulDivQR(a, b \div 2, c)
             r2  == (2 * h.r) % c
             odd == IF b % 2 = 1 THEN a ELSE 0
         IN  [q |-> 2 * h.q + (2 * h.r) \div c + (r2 + odd) \div c,
              r |-> (r2 + odd) % c]

\* a * b / c rounded toward zero, for 0 <= a <= c: param * C with
\* param = dot / lenSq in [0, 1]
MulDiv(a, b, c) == IF b < 0 THEN -MulDivQR(a, -b, c).q ELSE MulDivQR(a, b, c).q

\* closest point of the sub-segment p1-p2 to the ball centre
ClosestOnPair(ballPos, p1, p2) ==
    LET A == ballPos.x - p1.x
        B == ballPos.y - p1.y
        C == p2.x - p1.x
        D == p2.y - p1.y
        dot == A * C + B * D
        lenSq == C * C + D * D
    IN  IF lenSq = 0 \/ dot < 0 THEN p1          \* param < 0 (param = -1)
        ELSE IF dot > lenSq THEN p2              \* param > 1
        ELSE Pt(p1.x + MulDiv(dot, C, lenSq), p1.y + MulDiv(dot, D, lenSq))

\* distance < BALL_RADIUS + 3
InContact(ballPos, c) ==
    Dist2(ballPos.x - c.x, ballPos.y - c.y)
        < U(BALL_RADIUS + CONTACT_MARGIN) * U(BALL_RADIUS + CONTACT_MARGIN)

NoPoint == [none |-> TRUE]

\* indices of the pairs in contact
ContactPairs(ballPos, pathPoints) ==
    {i \in 1..(Len(pathPoints) - 1) :
        InContact(ballPos, ClosestOnPair(ballPos, pathPoints[i], pathPoints[i + 1]))}

SetMin(S) == CHOOSE m \in S : \A k \in S : m <= k

\* squared distance from the ball centre to the closest point of pair i
PairDist2(ballPos, pathPoints, i) ==
    Dist2(ballPos.x - ClosestOnPair(ballPos, pathPoints[i], pathPoints[i + 1]).x,
          ballPos.y - ClosestOnPair(ballPos, pathPoints[i], pathPoints[i + 1]).y)

\* variant of FirstContact that takes the pair of least distance
FirstContactNearest(ballPos, pathPoints, hits) ==
    IF hits = {} THEN NoPoint
    ELSE LET i == CHOOSE m \in hits : \A k \in hits :
                      PairDist2(ballPos, pathPoints, m)
                        <= PairDist2(ballPos, pathPoints, k)
         IN  ClosestOnPair(ballPos, pathPoints[i], pathPoints[i + 1])

\* the closest point of the first of the pairs hits, in path order
FirstContact(ballPos, pathPoints, hits) ==
    IF hits = {} THEN NoPoint
    ELSE ClosestOnPair(ballPos, pathPoints[SetMin(hits)],
                       pathPoints[SetMin(hits) + 1])

\* the loop returns at the first pair in contact; null when there is none
getCollisionPoint(ballPos, pathPoints) ==
    FirstContact(ballPos, pathPoints, ContactPairs(ballPos, pathPoints))

\* of two indices left < right the one nearer to the ball, left on a tie
Nearer(ballPos, pathPoints, left, right) ==
    IF Dist2(pathPoints[right].x - ballPos.x, pathPoints[right].y - ballPos.y)
         < Dist2(pathPoints[left].x - ballPos.x, pathPoints[left].y - ballPos.y)
    THEN right ELSE left

\* index of the sampled point nearest to the ball.  The loop keeps the first
\* index whose distance is strictly below all earlier ones, that is the first
\* index of minimal distance; it is found here by halving the index range.
RECURSIVE NearestIn(_, _, _, _)
NearestIn(ballPos, pathPoints, lo, hi) ==
    IF lo = hi THEN lo
    ELSE Nearer(ballPos, pathPoints,
                NearestIn(ballPos, pathPoints, lo, (lo + hi) \div 2),
                NearestIn(ballPos, pathPoints, (lo + hi) \div 2 + 1, hi))

NearestIdx(ballPos, pathPoints) == NearestIn(ballPos, pathPoints, 1, Len(pathPoints))

----------------------------------------------------------------------------
(* Energy tracker *)

\* calculateEnergy, with initialEnergyRef.current passed as initialEnergy
calculateEnergy(velocityX, velocityY, ballY, initialEnergy) ==
    LET velocitySquared == velocityX * velocityX + velocityY * velocityY
        kinetic   == BALL_MASS * velocitySquared
        height    == U(GROUND_Y) - ballY
        potential == 2 * BALL_MASS * GRAVITY * height
        total     == kinetic + potential
    IN  [kineticEnergy |-> kinetic, potentialEnergy |-> potential,
         totalEnergy |-> total, energyLoss |-> initialEnergy - total]

ZeroEnergy ==
    [kineticEnergy |-> 0, potentialEnergy |-> 0, totalEnergy |-> 0, energyLoss |-> 0]

----------------------------------------------------------------------------
(* One tick of animate, rule by rule.  b is the closure's ball state        *)
(* [ballX, ballY, velocityX, velocityY, onGround, ballInBucket]; each rule *)
(* returns the state after it.                                             *)

NoBucket == [none |-> TRUE]

\* the bucket placed by a click at x (handleCanvasClick)
BucketAt(bx) ==
    [x |-> bx, y |-> U(GROUND_Y), width |-> U(BUCKET_WIDTH),
     height |-> U(BUCKET_HEIGHT), isHit |-> FALSE]

\* velocityX *= friction, friction in hundredths
Damp(v, f) == TDiv(v * f, 100)

\* variant of checkBucketHit with > and < in place of >= and <=
checkBucketHitExclusive(bkt, ballX, ballY) ==
    IF bkt = NoBucket THEN FALSE
    ELSE LET ballBottom  == ballY + U(BALL_RADIUS)
             bucketLeft  == bkt.x - bkt.width \div 2
             bucketRight == bkt.x + bkt.width \div 2
             bucketTop   == bkt.y - bkt.height
         IN  /\ ballX > bucketLeft
             /\ ballX < bucketRight
             /\ ballBottom > bucketTop
             /\ ballBottom < bkt.y

checkBucketHit(bkt, ballX, ballY) ==
    IF bkt = NoBucket THEN FALSE
    ELSE LET ballBottom  == ballY + U(BALL_RADIUS)
             bucketLeft  == bkt.x - bkt.width \div 2
             bucketRight == bkt.x + bkt.width \div 2
             bucketTop   == bkt.y - bkt.height
         IN  /\ ballX >= bucketLeft
             /\ ballX <= bucketRight
             /\ ballBottom >= bucketTop
             /\ ballBottom <= bkt.y

\* variant of Integrate that moves the ball before it updates velocityY
IntegratePositionFirst(b) ==
    [b EXCEPT !.velocityY = b.velocityY + GRAVITY,
              !.ballX = b.ballX + b.velocityX,
              !.ballY = b.ballY + b.velocityY]

\* velocityY += GRAVITY; ballX += velocityX; ballY += velocityY
Integrate(b) ==
    [b EXCEPT !.velocityY = b.velocityY + GRAVITY,
              !.ballX = b.ballX + b.velocityX,
              !.ballY = b.ballY + b.velocityY + GRAVITY]

\* variant of BucketRule that does not pin the captured ball on the bucket
BucketRuleNoPin(b, bkt) ==
    IF bkt # NoBucket /\ ~b.ballInBucket /\ checkBucketHit(bkt, b.ballX, b.ballY)
    THEN [b EXCEPT !.ballInBucket = TRUE,
                   !.velocityX = 0, !.velocityY = 0, !.onGround = TRUE]
    ELSE b

\* variant of BucketRule that leaves the velocity of a captured ball alone
BucketRuleMoving(b, bkt) ==
    IF bkt # NoBucket /\ ~b.ballInBucket /\ checkBucketHit(bkt, b.ballX, b.ballY)
    THEN [b EXCEPT !.ballInBucket = TRUE,
                   !.ballY = (bkt.y - bkt.height) - U(BALL_RADIUS),
                   !.onGround = TRUE]
    ELSE b

\* if (bucket && !ballInBucket) { ballInBucket = checkBucketHit(...); ... }
BucketRule(b, bkt) ==
    IF bkt # NoBucket /\ ~b.ballInBucket /\ checkBucketHit(bkt, b.ballX, b.ballY)
    THEN [b EXCEPT !.ballInBucket = TRUE,
                   !.ballY = (bkt.y - bkt.height) - U(BALL_RADIUS),
                   !.velocityX = 0, !.velocityY = 0, !.onGround = TRUE]
    ELSE b

\* !ballInBucket && ballY + BALL_RADIUS >= GROUND_Y
GroundHit(b) == ~b.ballInBucket /\ b.ballY + U(BALL_RADIUS) >= U(GROUND_Y)

\* variant of GroundRule without ballY = GROUND_Y - BALL_RADIUS
GroundRuleNoClamp(b, f) ==
    IF b.ballY + U(BALL_RADIUS) >= U(GROUND_Y) /\ ~b.ballInBucket
    THEN [b EXCEPT !.velocityY = 0, !.onGround = TRUE,
                   !.velocityX = Damp(b.velocityX, f)]
    ELSE b

\* the ground rule: clamp to the ground, stop falling, damp velocityX
GroundRule(b, f) ==
    IF GroundHit(b)
    THEN [b EXCEPT !.ballY = U(GROUND_Y) - U(BALL_RADIUS), !.velocityY = 0,
                   !.onGround = TRUE, !.velocityX = Damp(b.velocityX, f)]
    ELSE b

\* the contact point the path rule works with; none when in the bucket,
\* where the path rule is skipped
Collision(b, pathPoints) ==
    IF b.ballInBucket THEN NoPoint
    ELSE getCollisionPoint(Pt(b.ballX, b.ballY), pathPoints)

\* variant of PathClamp that compares the ball centre with the contact height
PathClampBelowContact(b, collision) ==
    IF b.ballY > collision.y
    THEN [b EXCEPT !.ballY = collision.y - U(BALL_RADIUS), !.velocityY = 0,
                   !.onGround = TRUE]
    ELSE b

\* if (ballY > targetY) { ballY = targetY; velocityY = 0; onGround = true }
PathClamp(b, collision) ==
    IF b.ballY > collision.y - U(BALL_RADIUS)
    THEN [b EXCEPT !.ballY = collision.y - U(BALL_RADIUS), !.velocityY = 0,
                   !.onGround = TRUE]
    ELSE b

\* the slope at the sampled point nearestIdx, 0 when dx = 0
SlopeAt(pathPoints, nearestIdx) ==
    LET next    == pathPoints[nearestIdx + 1]
        current == pathPoints[nearestIdx]
        dx      == next.x - current.x
    IN  IF dx # 0 THEN TDiv((next.y - current.y) * Unit, dx) ELSE 0

\* variant of NudgeAt that does not ask for the grounded flag
NudgeAtAirborne(b, pathPoints, nearestIdx) ==
    IF nearestIdx < Len(pathPoints)
    THEN [b EXCEPT !.velocityX = b.velocityX + SlopeAt(pathPoints, nearestIdx)]
    ELSE b

\* if (nearestIdx < pathPoints.length - 1 && onGround) velocityX += slope * 1
NudgeAt(b, pathPoints, nearestIdx) ==
    IF nearestIdx < Len(pathPoints) /\ b.onGround
    THEN [b EXCEPT !.velocityX = b.velocityX + SlopeAt(pathPoints, nearestIdx)]
    ELSE b

SlopeNudge(b, pathPoints) ==
    NudgeAt(b, pathPoints, NearestIdx(Pt(b.ballX, b.ballY), pathPoints))

\* the path rule, given the contact point found
PathRule(b, pathPoints, collision) ==
    IF b.ballInBucket THEN b
    ELSE IF collision = NoPoint THEN [b EXCEPT !.onGround = FALSE]
    ELSE SlopeNudge(PathClamp(b, collision), pathPoints)

\* variant of FrictionRule that skips a ball the ground rule has damped
FrictionRuleOffGround(b, f) ==
    IF ~b.ballInBucket /\ b.ballY + U(BALL_RADIUS) < U(GROUND_Y)
    THEN [b EXCEPT !.velocityX = Damp(b.velocityX, f)] ELSE b

\* if (!ballInBucket) velocityX *= friction
FrictionRule(b, f) ==
    IF ~b.ballInBucket THEN [b EXCEPT !.velocityX = Damp(b.velocityX, f)] ELSE b

\* variant of Stopped with || in place of &&
StoppedEither(b) == Abs(b.velocityX) < STOP_SPEED \/ Abs(b.velocityY) < STOP_SPEED

\* Math.abs(velocityX) < 0.1 && Math.abs(velocityY) < 0.1
Stopped(b) == Abs(b.velocityX) < STOP_SPEED /\ Abs(b.velocityY) < STOP_SPEED

\* What one tick did: the ball before the stop check, and which rules acted.
Outcome(b, inBkt, grounded, collision, onPath, f) ==
    [ball       |-> FrictionRule(onPath, f),
     bucketRule |-> inBkt.ballInBucket /\ ~b.ballInBucket,
     groundRule |-> GroundHit(inBkt),
     contact    |-> collision # NoPoint,
     clamp      |-> onPath.ballY # grounded.ballY,
     nudge      |-> onPath.velocityX - grounded.velocityX,
     collision  |-> collision,
     grounded   |-> grounded]

OutcomeOnPath(b, inBkt, grounded, collision, f, pathPoints) ==
    Outcome(b, inBkt, grounded, collision,
            PathRule(grounded, pathPoints, collision), f)

OutcomeGrounded(b, inBkt, grounded, f, pathPoints) ==
    OutcomeOnPath(b, inBkt, grounded, Collision(grounded, pathPoints), f,
                  pathPoints)

OutcomeInBucket(b, inBkt, f, pathPoints) ==
    OutcomeGrounded(b, inBkt, GroundRule(inBkt, f), f, pathPoints)

\* integration, then the bucket, ground and path rules, then friction
TickOutcome(b, bkt, f, pathPoints) ==
    OutcomeInBucket(b, BucketRule(Integrate(b), bkt), f, pathPoints)

----------------------------------------------------------------------------
(* evaluatePredictions *)

Fields == {"initialTotalEnergy", "finalTotalEnergy", "energyLoss", "efficiency"}

EmptyPredictions == [f \in Fields |-> <<>>]

\* variant of Populated that takes the text "0" for an empty one
PopulatedNonZero(text) == text # <<>> /\ text # <<"0">>

\* a string is truthy when it is not empty
Populated(text) == text # <<>>

Result(metric, predicted, actual) ==
    [metric |-> metric, predicted |-> predicted, actual |-> actual,
     isCorrect |-> isPredictionCorrect(predicted, actual),
     accuracy |-> calculatePredictionAccuracy(predicted, actual)]

\* ((initialEnergy - final.energyLoss) / initialEnergy) * 100
Efficiency(final, initialEnergy) ==
    IF initialEnergy = 0 THEN NaN
    ELSE Rat(100 * (initialEnergy - final.energyLoss), initialEnergy)

\* variant of evaluatePredictions that scores nothing
evaluatePredictionsNone(preds, final, initialEnergy) == <<>>

evaluatePredictions(preds, final, initialEnergy) ==
    (IF Populated(preds.initialTotalEnergy)
     THEN <<Result("Initial Total Energy", ParseFloat(preds.initialTotalEnergy),
                   EnergyNum(initialEnergy))>>
     ELSE <<>>)
    \o
    (IF Populated(preds.finalTotalEnergy)
     THEN <<Result("Final Total Energy", ParseFloat(preds.finalTotalEnergy),
                   EnergyNum(final.totalEnergy))>>
     ELSE <<>>)
    \o
    (IF Populated(preds.energyLoss)
     THEN <<Result("Energy Loss", ParseFloat(preds.energyLoss),
                   EnergyNum(final.energyLoss))>>
     ELSE <<>>)
    \o
    (IF Populated(preds.efficiency)
     THEN <<Result("Efficiency", ParseFloat(preds.efficiency),
                   Efficiency(final, initialEnergy))>>
     ELSE <<>>)

----------------------------------------------------------------------------
(* State *)

VARIABLES
    path,               \* useState: sealed segments [type, points]
    bucket,             \* useState: NoBucket or [x, y, width, height, isHit]
    friction,           \* useState, in hundredths
    initialVelocity,    \* useState
    horizontalSpeed,    \* useState
    verticalSpeed,      \* useState
    speedControlMode,   \* useState: "combined" or "separate"
    predictions,        \* useState: field -> text
    isAnimating,        \* useState
    bucketHit,          \* useState
    showBucketResult,   \* useState
    energyData,         \* useState
    finalEnergyData,    \* useState: NoEnergy (null) or an EnergyData
    predictionResults,  \* useState
    showResultsModal,   \* useState
    initialEnergyRef,   \* useRef
    pathPoints,         \* runSimulation's const pathPoints
    ball,               \* runSimulation's let ballX, ..., ballInBucket
    frame,              \* a requestAnimationFrame(animate) is pending
    lastTick,           \* what the last call of animate did, and the
                        \* velocity it had reached at its stop check
    probe,              \* argument and result of a scorer call on its own
    currentPoints,      \* useState: the points clicked and not yet sealed
    drawMode,           \* useState: "line" or "curve"
    bucketPlacementMode, \* useState
    simulationModel     \* a SimulationModel object (model.ts)

vars ==
    <<path, bucket, friction, initialVelocity, horizontalSpeed, verticalSpeed,
      speedControlMode, predictions, isAnimating, bucketHit, showBucketResult,
      energyData, finalEnergyData, predictionResults, showResultsModal,
      initialEnergyRef, pathPoints, ball, frame, lastTick, probe,
      currentPoints, drawMode, bucketPlacementMode, simulationModel>>

\* the state of the drawing tools
editVars == <<currentPoints, drawMode, bucketPlacementMode>>

\* what the user sets up before a run
setupVars ==
    <<path, friction, initialVelocity, horizontalSpeed, verticalSpeed,
      speedControlMode, predictions>>

NoEnergy == [none |-> TRUE]

NoTick == [none |-> TRUE]

NoProbe == [none |-> TRUE]

\* no SimulationModel has been constructed (the component makes none)
NoModel == [none |-> TRUE]

NoBall ==
    [ballX |-> 0, ballY |-> 0, velocityX |-> 0, velocityY |-> 0,
     onGround |-> FALSE, ballInBucket |-> FALSE]

CANVAS_WIDTH == 1400
DEFAULT_FRICTION == 98
DEFAULT_VELOCITY == 2

\* the component as constructed (the useState and useRef initial values)
Constructed ==
    /\ path = <<>>
    /\ bucket = NoBucket
    /\ friction = DEFAULT_FRICTION
    /\ initialVelocity = U(DEFAULT_VELOCITY)
    /\ horizontalSpeed = U(DEFAULT_VELOCITY)
    /\ verticalSpeed = 0
    /\ speedControlMode = "combined"
    /\ predictions = EmptyPredictions
    /\ isAnimating = FALSE
    /\ bucketHit = FALSE
    /\ showBucketResult = FALSE
    /\ energyData = ZeroEnergy
    /\ finalEnergyData = NoEnergy
    /\ predictionResults = <<>>
    /\ showResultsModal = FALSE
    /\ initialEnergyRef = 0
    /\ pathPoints = <<>>
    /\ ball = NoBall
    /\ frame = FALSE
    /\ lastTick = NoTick
    /\ currentPoints = <<>>
    /\ drawMode = "line"
    /\ bucketPlacementMode = FALSE
    /\ simulationModel = NoModel

----------------------------------------------------------------------------
(* The run: runSimulation, animate, stopSimulation *)

\* bound on |ballX|, in units: a ball that rolls on for ever is followed
\* this far
MaxX == 400

\* One call of animate from ball state b.  r is the React state the call's
\* setters act on: [bucket, bucketHit, showBucketResult, showResultsModal,
\* isAnimating, finalEnergyData, predictionResults].
AnimateFrom(b, pts, initialEnergy, r) ==
    \E t \in {TickOutcome(b, r.bucket, friction, pts)} :
        /\ bucket' = IF t.bucketRule THEN [r.bucket EXCEPT !.isHit = TRUE]
                     ELSE r.bucket
        /\ bucketHit' = (t.bucketRule \/ r.bucketHit)
        /\ showBucketResult' =
              \/ t.bucketRule
              \/ t.groundRule /\ r.bucket # NoBucket
              \/ r.showBucketResult
        /\ lastTick' = [bucketRule |-> t.bucketRule, groundRule |-> t.groundRule,
                        contact |-> t.contact, clamp |-> t.clamp,
                        nudge |-> t.nudge, settled |-> Stopped(t.ball),
                        velocityX |-> t.ball.velocityX,
                        velocityY |-> t.ball.velocityY,
                        collision |-> t.collision,
                        grounded |-> t.grounded]
        /\ IF Stopped(t.ball)
           THEN \E final \in {calculateEnergy(0, 0, t.ball.ballY, initialEnergy)} :
                \E results \in {evaluatePredictions(predictions, final,
                                                    initialEnergy)} :
                /\ ball' = [t.ball EXCEPT !.velocityX = 0, !.velocityY = 0]
                /\ energyData' = final
                /\ finalEnergyData' = final
                /\ predictionResults' = results
                /\ showResultsModal' = (results # <<>> \/ r.showResultsModal)
                /\ isAnimating' = FALSE
                /\ frame' = FALSE
           ELSE /\ ball' = t.ball
                /\ energyData' = calculateEnergy(t.ball.velocityX,
                                     t.ball.velocityY, t.ball.ballY, initialEnergy)
                /\ finalEnergyData' = r.finalEnergyData
                /\ predictionResults' = r.predictionResults
                /\ showResultsModal' = r.showResultsModal
                /\ isAnimating' = r.isAnimating
                /\ frame' = TRUE

\* variant of ResetState that keeps what the previous run left
ResetStale ==
    [bucket |-> bucket, bucketHit |-> bucketHit,
     showBucketResult |-> showBucketResult,
     showResultsModal |-> showResultsModal, isAnimating |-> TRUE,
     finalEnergyData |-> finalEnergyData,
     predictionResults |-> predictionResults]

\* the React state after the setters runSimulation calls first
ResetState ==
    [bucket |-> IF bucket # NoBucket THEN [bucket EXCEPT !.isHit = FALSE]
                ELSE bucket,
     bucketHit |-> FALSE, showBucketResult |-> FALSE,
     showResultsModal |-> FALSE, isAnimating |-> TRUE,
     finalEnergyData |-> NoEnergy, predictionResults |-> <<>>]

\* the rest of runSimulation: the sampled path, the ball's initial state, the
\* initial energy, and the first call of animate, which it makes itself
StartRun(r0) ==
    LET pts == getPathPoints(path)
        x0  == IF pts # <<>> /\ pts[1].x # 0
               THEN pts[1].x ELSE U(CANVAS_WIDTH) \div 2
        vx0 == IF speedControlMode = "separate"
               THEN horizontalSpeed ELSE initialVelocity
        vy0 == IF speedControlMode = "separate" THEN verticalSpeed ELSE 0
        b0  == [ballX |-> x0, ballY |-> U(START_Y), velocityX |-> vx0,
                velocityY |-> vy0, onGround |-> FALSE, ballInBucket |-> FALSE]
        e0  == calculateEnergy(vx0, vy0, U(START_Y), initialEnergyRef).totalEnergy
    IN  /\ pathPoints' = pts
        /\ initialEnergyRef' = e0
        /\ AnimateFrom(b0, pts, e0, r0)

\* variant of runSimulation without if (path.length === 0) return
runSimulationAnyPath ==
    /\ ~isAnimating
    /\ StartRun(ResetState)
    /\ UNCHANGED <<simulationModel, editVars, setupVars, probe>>

\* runSimulation (the Run button is disabled while animating)
runSimulation ==
    /\ ~isAnimating
    /\ path # <<>>
    /\ StartRun(ResetState)
    /\ UNCHANGED <<simulationModel, editVars, setupVars, probe>>

\* a pending frame runs animate
animate ==
    /\ frame
    /\ Abs(ball.ballX) <= U(MaxX)
    /\ AnimateFrom(ball, pathPoints, initialEnergyRef,
                   [bucket |-> bucket, bucketHit |-> bucketHit,
                    showBucketResult |-> showBucketResult,
                    showResultsModal |-> showResultsModal,
                    isAnimating |-> isAnimating,
                    finalEnergyData |-> finalEnergyData,
                    predictionResults |-> predictionResults])
    /\ UNCHANGED <<simulationModel, editVars, setupVars, initialEnergyRef, pathPoints, probe>>

\* variant of stopSimulation without cancelAnimationFrame
stopSimulationNoCancel ==
    /\ isAnimating
    /\ isAnimating' = FALSE
    /\ IF finalEnergyData # NoEnergy
       THEN LET results == evaluatePredictions(predictions, finalEnergyData,
                                               initialEnergyRef)
            IN  /\ predictionResults' = results
                /\ showResultsModal' = (results # <<>> \/ showResultsModal)
       ELSE UNCHANGED <<predictionResults, showResultsModal>>
    /\ UNCHANGED <<simulationModel, editVars, setupVars, bucket, bucketHit, showBucketResult, energyData,
                   finalEnergyData, initialEnergyRef, pathPoints, ball, frame,
                   lastTick, probe>>

\* stopSimulation (the Stop button is enabled only while animating)
stopSimulation ==
    /\ isAnimating
    /\ isAnimating' = FALSE
    /\ IF finalEnergyData # NoEnergy
       THEN LET results == evaluatePredictions(predictions, finalEnergyData,
                                               initialEnergyRef)
            IN  /\ predictionResults' = results
                /\ showResultsModal' = (results # <<>> \/ showResultsModal)
       ELSE UNCHANGED <<predictionResults, showResultsModal>>
    /\ frame' = FALSE
    /\ UNCHANGED <<simulationModel, editVars, setupVars, bucket, bucketHit, showBucketResult, energyData,
                   finalEnergyData, initialEnergyRef, pathPoints, ball,
                   lastTick, probe>>

\* clearAll (the Clear All button is disabled while animating)
clearAll ==
    /\ ~isAnimating
    /\ path' = <<>>
    /\ bucket' = NoBucket
    /\ showBucketResult' = FALSE
    /\ bucketHit' = FALSE
    /\ isAnimating' = FALSE
    /\ finalEnergyData' = NoEnergy
    /\ predictions' = EmptyPredictions
    /\ predictionResults' = <<>>
    /\ showResultsModal' = FALSE
    /\ frame' = FALSE
    /\ currentPoints' = <<>>
    /\ bucketPlacementMode' = FALSE
    /\ UNCHANGED <<friction, initialVelocity, horizontalSpeed, verticalSpeed,
                   speedControlMode, energyData, initialEnergyRef, pathPoints,
                   ball, lastTick, probe, drawMode, simulationModel>>

----------------------------------------------------------------------------
(* Specification of the run.  A run starts from a configuration the editing *)
(* controls can produce: a path of sealed segments, a bucket on the ground, *)
(* a friction and speed setting, and prediction texts.                      *)

Segment(type, points) == [type |-> type, points |-> points]

P(px, py) == Pt(U(px), U(py))

\* Scenario 1: a vertical drop
VerticalDrop == <<Segment("line", <<P(100, 50), P(100, 650)>>)>>

\* Scenario 2: a straight line that ends at x = 300 on the ground
ToBucket == <<Segment("line", <<P(100, 500), P(300, 650)>>)>>

\* the same line, ending on the ground 60 short of x = 300
ShortOfBucket == <<Segment("line", <<P(40, 500), P(240, 650)>>)>>

\* a short ramp high above the ground
Ramp == <<Segment("line", <<P(100, 200), P(200, 250)>>)>>

\* a ramp and a flat run, drawn as a curve
CurveRamp == <<Segment("curve", <<P(100, 300), P(220, 360), P(340, 360)>>)>>

\* a low ledge that starts at x = 260, the left edge of a bucket at 300
BucketEdge == <<Segment("line", <<P(260, 640), P(200, 640)>>)>>

\* a ramp down to a ledge 0.3 above the ground that leads into a bucket at
\* 300 (click coordinates are scaled by canvas.width / rect.width, so they
\* need not be whole): a ball that rolls on the ledge has its bottom edge at
\* GROUND_Y after integration
Ledge ==
    <<Segment("line", <<P(100, 560), Pt(U(150), U(GROUND_Y) - GRAVITY)>>),
      Segment("line", <<Pt(U(150), U(GROUND_Y) - GRAVITY),
                        Pt(U(340), U(GROUND_Y) - GRAVITY)>>)>>

Paths ==
    {<<>>, VerticalDrop, ToBucket, ShortOfBucket, BucketEdge, Ledge, Ramp,
     CurveRamp}

Buckets == {NoBucket, BucketAt(U(300))}

\* the slider goes from 0.10 to 0.99 in steps of 0.01
Frictions == {90, 98, 99}

\* [mode, initialVelocity, horizontalSpeed, verticalSpeed] as the sync effect
\* leaves them
Speed(mode, h, v) ==
    [mode |-> mode, h |-> h, v |-> v,
     initial |-> IF mode = "combined" THEN h ELSE ISqrt(h * h + v * v)]

Speeds ==
    {Speed("combined", 0, 0), Speed("combined", U(2), 0),
     Speed("separate", 0, -GRAVITY), Speed("separate", U(3), -U(2))}

SomePredictions ==
    [EmptyPredictions EXCEPT !.initialTotalEnergy = <<"1", "8", "0">>,
                             !.energyLoss = <<"5">>]

Init ==
    /\ path \in Paths
    /\ bucket \in Buckets
    /\ friction \in Frictions
    /\ \E s \in Speeds :
          /\ speedControlMode = s.mode
          /\ initialVelocity = s.initial
          /\ horizontalSpeed = s.h
          /\ verticalSpeed = s.v
    /\ predictions \in {EmptyPredictions, SomePredictions}
    /\ path = <<>> => predictions = EmptyPredictions
    /\ isAnimating = FALSE
    /\ bucketHit = FALSE
    /\ showBucketResult = FALSE
    /\ energyData = ZeroEnergy
    /\ finalEnergyData = NoEnergy
    /\ predictionResults = <<>>
    /\ showResultsModal = FALSE
    /\ initialEnergyRef = 0
    /\ pathPoints = <<>>
    /\ ball = NoBall
    /\ frame = FALSE
    /\ lastTick = NoTick
    /\ probe = NoProbe
    /\ currentPoints = <<>>
    /\ drawMode = "line"
    /\ bucketPlacementMode = FALSE
    /\ simulationModel = NoModel

Next == runSimulation \/ animate \/ stopSimulation \/ clearAll

Spec == Init /\ [][Next]_vars

----------------------------------------------------------------------------
(* The scorer on its own: calculatePredictionAccuracy and                  *)
(* isPredictionCorrect applied to one pair of numbers, given in hundredths *)

\* bound on the probed numbers, in hundredths
MaxProbe == 30

\* the numbers of Scenario 3 and 4 (10 and 5) are probed as well
ProbeNums == (-MaxProbe..MaxProbe) \cup {500, 1000}

InitScore ==
    /\ Constructed
    /\ probe \in {[predicted |-> Rat(pn, 100), actual |-> Rat(an, 100),
                   scored |-> FALSE, isCorrect |-> FALSE, accuracy |-> Rat(0, 1)] :
                  pn \in ProbeNums, an \in ProbeNums}

scorePrediction ==
    /\ ~probe.scored
    /\ probe' = [probe EXCEPT
                   !.scored = TRUE,
                   !.isCorrect = isPredictionCorrect(probe.predicted, probe.actual),
                   !.accuracy = calculatePredictionAccuracy(probe.predicted,
                                                            probe.actual)]
    /\ UNCHANGED <<simulationModel, editVars, setupVars, bucket, isAnimating, bucketHit, showBucketResult,
                   energyData, finalEnergyData, predictionResults,
                   showResultsModal, initialEnergyRef, pathPoints, ball, frame,
                   lastTick>>

NextScore == scorePrediction

SpecScore == InitScore /\ [][NextScore]_vars

----------------------------------------------------------------------------
(* evaluatePredictions on its own: one call on a final snapshot, for every *)
(* way of filling in the four prediction fields                            *)

Texts == {<<>>, <<"0">>, <<"9", ".", "5">>, <<"1", "8", "0">>, <<"a", "b">>}

\* initialEnergyRef of a run started at rest and at 2 units per tick
InitialEnergies ==
    {calculateEnergy(vx, 0, U(START_Y), 0).totalEnergy : vx \in {0, U(DEFAULT_VELOCITY)}}

\* the ball at rest on the ground, in the bucket, and on top of a path
RestHeights == {U(GROUND_Y - BALL_RADIUS), U(GROUND_Y - BUCKET_HEIGHT - BALL_RADIUS),
                U(START_Y)}

InitEval ==
    /\ path = VerticalDrop
    /\ bucket = NoBucket
    /\ friction = DEFAULT_FRICTION
    /\ initialVelocity = U(DEFAULT_VELOCITY)
    /\ horizontalSpeed = U(DEFAULT_VELOCITY)
    /\ verticalSpeed = 0
    /\ speedControlMode = "combined"
    /\ predictions = EmptyPredictions
    /\ isAnimating = FALSE
    /\ bucketHit = FALSE
    /\ showBucketResult = FALSE
    /\ energyData = ZeroEnergy
    /\ finalEnergyData = NoEnergy
    /\ predictionResults = <<>>
    /\ showResultsModal = FALSE
    /\ initialEnergyRef \in InitialEnergies
    /\ pathPoints = <<>>
    /\ ball = NoBall
    /\ frame = FALSE
    /\ lastTick = NoTick
    /\ \E y \in RestHeights :
          probe = [final |-> calculateEnergy(0, 0, y, initialEnergyRef),
                   scored |-> FALSE]
    /\ currentPoints = <<>>
    /\ drawMode = "line"
    /\ bucketPlacementMode = FALSE
    /\ simulationModel = NoModel

\* handlePredictionChange; the fields are filled in, in any order, before
\* the call of evaluatePredictions that is followed here
handlePredictionChange ==
    /\ ~probe.scored
    /\ \E field \in Fields, value \in Texts :
          predictions' = [predictions EXCEPT ![field] = value]
    /\ UNCHANGED <<simulationModel, editVars, path, bucket, friction, initialVelocity,
                   horizontalSpeed, verticalSpeed, speedControlMode,
                   isAnimating, bucketHit,
                   showBucketResult, energyData, finalEnergyData,
                   predictionResults, showResultsModal, initialEnergyRef,
                   pathPoints, ball, frame, lastTick, probe>>

\* setFinalEnergyData(final); evaluatePredictions(final)
evaluateFinal ==
    /\ ~probe.scored
    /\ probe' = [probe EXCEPT !.scored = TRUE]
    /\ finalEnergyData' = probe.final
    /\ \E results \in {evaluatePredictions(predictions, probe.final,
                                           initialEnergyRef)} :
          /\ predictionResults' = results
          /\ showResultsModal' = (results # <<>> \/ showResultsModal)
    /\ UNCHANGED <<simulationModel, editVars, setupVars, bucket, isAnimating, bucketHit, showBucketResult,
                   energyData, initialEnergyRef, pathPoints, ball, frame,
                   lastTick>>

NextEval == handlePredictionChange \/ evaluateFinal

SpecEval == InitEval /\ [][NextEval]_vars

----------------------------------------------------------------------------
(* getPathPoints on its own: one call on a path of one or two sealed       *)
(* segments of two or three points each                                    *)

\* points a click can give; two of them may coincide
SamplePoints == {P(0, 50), P(7, 50), P(30, 90)}

SampleSegments ==
    {Segment(type, points) :
        type \in {"line", "curve"},
        points \in [1..2 -> SamplePoints] \cup [1..3 -> SamplePoints]}

ShortSegments ==
    {Segment(type, points) :
        type \in {"line", "curve"}, points \in [1..2 -> SamplePoints]}

SamplePaths ==
    {<<>>} \cup {<<s>> : s \in SampleSegments}
           \cup {<<s1, s2>> : s1 \in ShortSegments, s2 \in ShortSegments}

InitSample ==
    /\ path \in SamplePaths
    /\ bucket = NoBucket
    /\ friction = DEFAULT_FRICTION
    /\ initialVelocity = U(DEFAULT_VELOCITY)
    /\ horizontalSpeed = U(DEFAULT_VELOCITY)
    /\ verticalSpeed = 0
    /\ speedControlMode = "combined"
    /\ predictions = EmptyPredictions
    /\ isAnimating = FALSE
    /\ bucketHit = FALSE
    /\ showBucketResult = FALSE
    /\ energyData = ZeroEnergy
    /\ finalEnergyData = NoEnergy
    /\ predictionResults = <<>>
    /\ showResultsModal = FALSE
    /\ initialEnergyRef = 0
    /\ pathPoints = <<>>
    /\ ball = NoBall
    /\ frame = FALSE
    /\ lastTick = NoTick
    /\ probe = [sampled |-> FALSE]
    /\ currentPoints = <<>>
    /\ drawMode = "line"
    /\ bucketPlacementMode = FALSE
    /\ simulationModel = NoModel

\* const pathPoints = getPathPoints()
samplePath ==
    /\ ~probe.sampled
    /\ probe' = [sampled |-> TRUE]
    /\ pathPoints' = getPathPoints(path)
    /\ UNCHANGED <<simulationModel, editVars, setupVars, bucket, isAnimating, bucketHit, showBucketResult,
                   energyData, finalEnergyData, predictionResults,
                   showResultsModal, initialEnergyRef, ball, frame, lastTick>>

NextSample == samplePath

SpecSample == InitSample /\ [][NextSample]_vars

----------------------------------------------------------------------------
(* getCollisionPoint on its own: one call for a ball position and the      *)
(* sampled points of a path                                                *)

\* a flat line, a line of three points that goes down and up again, and no
\* path at all
FlatLine == <<Segment("line", <<P(100, 200), P(130, 200)>>)>>

Valley == <<Segment("line", <<P(100, 200), P(120, 220), P(140, 200)>>)>>

ContactPaths == {<<>>, FlatLine, Valley}

\* ball centres on a grid of 5 around the paths, and on the row that is
\* BALL_RADIUS + 3 above the flat line
ContactPositions ==
    {[NoBall EXCEPT !.ballX = U(90 + 5 * i), !.ballY = U(175 + 5 * j)] :
        i \in 0..12, j \in 0..11}
      \cup {[NoBall EXCEPT !.ballX = U(90 + 5 * i),
                           !.ballY = U(200 - BALL_RADIUS - CONTACT_MARGIN)] :
               i \in 0..12}

InitContact ==
    /\ path \in ContactPaths
    /\ bucket = NoBucket
    /\ friction = DEFAULT_FRICTION
    /\ initialVelocity = U(DEFAULT_VELOCITY)
    /\ horizontalSpeed = U(DEFAULT_VELOCITY)
    /\ verticalSpeed = 0
    /\ speedControlMode = "combined"
    /\ predictions = EmptyPredictions
    /\ isAnimating = TRUE
    /\ bucketHit = FALSE
    /\ showBucketResult = FALSE
    /\ energyData = ZeroEnergy
    /\ finalEnergyData = NoEnergy
    /\ predictionResults = <<>>
    /\ showResultsModal = FALSE
    /\ initialEnergyRef = 0
    /\ pathPoints = getPathPoints(path)
    /\ ball \in ContactPositions
    /\ frame = TRUE
    /\ lastTick = NoTick
    /\ probe = [called |-> FALSE]
    /\ currentPoints = <<>>
    /\ drawMode = "line"
    /\ bucketPlacementMode = FALSE
    /\ simulationModel = NoModel

\* const collision = getCollisionPoint({ x: ballX, y: ballY }, pathPoints)
probeCollision ==
    /\ ~probe.called
    /\ probe' = [called |-> TRUE,
                 collision |-> getCollisionPoint(Pt(ball.ballX, ball.ballY),
                                                 pathPoints)]
    /\ UNCHANGED <<simulationModel, editVars, setupVars, bucket, isAnimating, bucketHit, showBucketResult,
                   energyData, finalEnergyData, predictionResults,
                   showResultsModal, initialEnergyRef, pathPoints, ball, frame,
                   lastTick>>

NextContact == probeCollision

SpecContact == InitContact /\ [][NextContact]_vars

----------------------------------------------------------------------------
(* Editing: the canvas clicks and the buttons of the toolbar, from the      *)
(* component as constructed, with the runs they lead to                     *)

\* bound on the pending points and on the sealed segments
MaxPending == 2

MaxSegments == 1

\* the runs started while editing are followed while the ball is at most
\* this far down, in pixels
MaxFall == 53

\* the places clicked: one on the left edge of the canvas, one near the
\* ground (where a bucket can be placed)
ClickPoints == {P(0, 60), P(300, 640)}

\* handleCanvasClick: nothing while animating; in bucket placement mode a
\* click at y >= GROUND_Y - 20 places the bucket and any other click does
\* nothing; otherwise the click adds a pending point
handleCanvasClick ==
    /\ ~isAnimating
    /\ \E pt \in ClickPoints :
          IF bucketPlacementMode
          THEN /\ pt.y >= U(GROUND_Y - 20)
               /\ bucket' = BucketAt(pt.x)
               /\ bucketPlacementMode' = FALSE
               /\ UNCHANGED currentPoints
          ELSE /\ Len(currentPoints) < MaxPending
               /\ currentPoints' = Append(currentPoints, pt)
               /\ UNCHANGED <<bucket, bucketPlacementMode>>
    /\ UNCHANGED <<setupVars, drawMode, isAnimating, bucketHit,
                   showBucketResult, energyData, finalEnergyData,
                   predictionResults, showResultsModal, initialEnergyRef,
                   pathPoints, ball, frame, lastTick, probe, simulationModel>>

\* what every action but completeSegment and clearAll keeps of the editing
sealUnchanged ==
    UNCHANGED <<friction, initialVelocity, horizontalSpeed, verticalSpeed,
                speedControlMode, predictions, drawMode, bucketPlacementMode,
                bucket, isAnimating, bucketHit, showBucketResult, energyData,
                finalEnergyData, predictionResults, showResultsModal,
                initialEnergyRef, pathPoints, ball, frame, lastTick, probe,
                simulationModel>>

\* variant of completeSegment that seals one pending point as well
completeSegmentOnePoint ==
    /\ ~isAnimating
    /\ Len(path) < MaxSegments
    /\ Len(currentPoints) >= 1
    /\ path' = Append(path, Segment(drawMode, currentPoints))
    /\ currentPoints' = <<>>
    /\ sealUnchanged

\* completeSegment (nothing is clicked or sealed while animating: the canvas
\* click returns and the button is disabled)
completeSegment ==
    /\ ~isAnimating
    /\ Len(path) < MaxSegments
    /\ Len(currentPoints) >= 2
    /\ path' = Append(path, Segment(drawMode, currentPoints))
    /\ currentPoints' = <<>>
    /\ sealUnchanged

\* the Line Mode and Curve Mode buttons, disabled while animating
setDrawMode ==
    /\ ~isAnimating
    /\ drawMode' \in {"line", "curve"} \ {drawMode}
    /\ UNCHANGED <<setupVars, currentPoints, bucketPlacementMode, bucket,
                   isAnimating, bucketHit, showBucketResult, energyData,
                   finalEnergyData, predictionResults, showResultsModal,
                   initialEnergyRef, pathPoints, ball, frame, lastTick, probe,
                   simulationModel>>

\* placeBucket (the button is disabled while animating and in placement mode)
placeBucket ==
    /\ ~isAnimating
    /\ ~bucketPlacementMode
    /\ bucketPlacementMode' = TRUE
    /\ showBucketResult' = FALSE
    /\ bucketHit' = FALSE
    /\ bucket' = IF bucket # NoBucket THEN [bucket EXCEPT !.isHit = FALSE]
                 ELSE bucket
    /\ UNCHANGED <<setupVars, currentPoints, drawMode, isAnimating,
                   energyData, finalEnergyData, predictionResults,
                   showResultsModal, initialEnergyRef, pathPoints, ball,
                   frame, lastTick, probe, simulationModel>>

\* removeBucket (the button is shown when there is a bucket and disabled
\* while animating)
removeBucket ==
    /\ ~isAnimating
    /\ bucket # NoBucket
    /\ bucket' = NoBucket
    /\ bucketPlacementMode' = FALSE
    /\ showBucketResult' = FALSE
    /\ bucketHit' = FALSE
    /\ UNCHANGED <<setupVars, currentPoints, drawMode, isAnimating,
                   energyData, finalEnergyData, predictionResults,
                   showResultsModal, initialEnergyRef, pathPoints, ball,
                   frame, lastTick, probe, simulationModel>>

\* a pending frame of a run started while editing
animateNear == ball.ballY <= U(MaxFall) /\ animate

InitEdit ==
    /\ Constructed
    /\ probe = NoProbe

NextEdit ==
    \/ handleCanvasClick
    \/ completeSegment
    \/ setDrawMode
    \/ placeBucket
    \/ removeBucket
    \/ clearAll
    \/ runSimulation
    \/ animateNear
    \/ stopSimulation

SpecEdit == InitEdit /\ [][NextEdit]_vars

----------------------------------------------------------------------------
(* SimulationModel (model.ts): one object and the calls a client makes on  *)
(* it.  An angle is given by its sine and cosine in tenths, a friction      *)
(* coefficient in tenths, deltaTime in whole seconds.  Forces, speeds and   *)
(* distances are counted in GRAVITY / 100, positions in 1 / 100000, and     *)
(* energyLoss in GRAVITY * GRAVITY / 10000, which keeps every value exact.  *)

MODEL_GRAVITY == 981          \* private readonly GRAVITY = 9.81, in hundredths
START_HEIGHT == 100           \* new Vector(0, 100)
MODEL_MASS == 1               \* new Ball(1, ...)
BUDGET == 1000                \* this.budget = 1000

PosDen == 100000              \* positions are counted in 1/PosDen

\* new Ball(1, new Vector(0, 100))
NewBall ==
    [mass |-> MODEL_MASS,
     position |-> [x |-> 0, y |-> START_HEIGHT * PosDen],
     velocity |-> [x |-> 0, y |-> 0]]

\* new SimulationModel()
NewModel ==
    [path |-> <<>>, ball |-> NewBall, currentState |-> "Ready",
     budget |-> BUDGET, totalEnergy |-> 0, energyLoss |-> 0]

\* new PathSegment(type, length, angle, friction)
PathSegment(type, length, sin, cos, frictionCoeff) ==
    [type |-> type, length |-> length, sin |-> sin, cos |-> cos,
     frictionCoefficient |-> frictionCoeff]

\* the angles 0, asin(0.6), asin(0.8) and pi / 2, as [sin, cos] in tenths
Angles == {<<0, 10>>, <<6, 8>>, <<8, 6>>, <<10, 0>>}

\* friction coefficients 0, 0.5 and 2, in tenths
Coefficients == {0, 5, 20}

ModelSegments ==
    {PathSegment("Straight", 100, a[1], a[2], f) : a \in Angles, f \in Coefficients}

DeltaTimes == {1, 2}

\* bound on the segments added to the path, and on the speed up to which
\* the ball is followed, in GRAVITY / 100
MaxModelSegments == 2

MaxSpeed == 400

\* forceGravity - forceFriction, in GRAVITY / 100
NetForce(segment) ==
    10 * segment.sin - segment.cos * segment.frictionCoefficient

\* forceFriction = normalForce * frictionCoeff, in GRAVITY / 100
ForceFriction(segment) == segment.cos * segment.frictionCoefficient

\* the body of updateState for a Running model with a segment
Advance(m, segment, deltaTime) ==
    LET newSpeed      == m.ball.velocity.x + NetForce(segment) * deltaTime
        distanceMoved == newSpeed * deltaTime
        x == m.ball.position.x + MODEL_GRAVITY * distanceMoved * segment.cos
        y == m.ball.position.y - MODEL_GRAVITY * distanceMoved * segment.sin
    IN  [m EXCEPT !.ball.velocity.x = newSpeed,
                  !.ball.position.x = x,
                  !.ball.position.y = IF y <= 0 THEN 0 ELSE y,
                  !.energyLoss = m.energyLoss
                       + ForceFriction(segment) * distanceMoved * m.ball.mass,
                  !.currentState = IF y <= 0 THEN "Finished" ELSE "Running"]

\* variant of UpdatedModel without the test of currentState
UpdatedModelAnyState(m, deltaTime) ==
    IF m.path = <<>> THEN [m EXCEPT !.currentState = "Finished"]
    ELSE Advance(m, m.path[1], deltaTime)

\* updateState(deltaTime)
UpdatedModel(m, deltaTime) ==
    IF m.currentState # "Running" THEN m
    ELSE IF m.path = <<>> THEN [m EXCEPT !.currentState = "Finished"]
    ELSE Advance(m, m.path[1], deltaTime)

\* what every call on the SimulationModel leaves alone: the component
componentUnchanged ==
    UNCHANGED <<editVars, setupVars, bucket, isAnimating, bucketHit,
                showBucketResult, energyData, finalEnergyData,
                predictionResults, showResultsModal, initialEnergyRef,
                pathPoints, ball, frame, lastTick>>

\* model.path.addSegment(segment)
addSegment ==
    /\ Len(simulationModel.path) < MaxModelSegments
    /\ \E segment \in ModelSegments :
          simulationModel' =
              [simulationModel EXCEPT !.path = Append(@, segment)]
    /\ probe' = [call |-> "addSegment"]
    /\ componentUnchanged

\* a client starts the simulation: currentState is a public field, and the
\* class has no method that sets it to Running
start ==
    /\ simulationModel.currentState = "Ready"
    /\ simulationModel' = [simulationModel EXCEPT !.currentState = "Running"]
    /\ probe' = [call |-> "start"]
    /\ componentUnchanged

\* model.updateState(deltaTime), in any state
updateState ==
    /\ Abs(simulationModel.ball.velocity.x) <= MaxSpeed
    /\ \E deltaTime \in DeltaTimes :
          /\ simulationModel' = UpdatedModel(simulationModel, deltaTime)
          /\ probe' = [call |-> "updateState", deltaTime |-> deltaTime]
    /\ componentUnchanged

\* model.reset()
reset ==
    /\ simulationModel' =
          [simulationModel EXCEPT !.ball = NewBall, !.currentState = "Ready",
                                  !.energyLoss = 0]
    /\ probe' = [call |-> "reset"]
    /\ componentUnchanged

InitModel ==
    /\ path = <<>>
    /\ bucket = NoBucket
    /\ friction = DEFAULT_FRICTION
    /\ initialVelocity = U(DEFAULT_VELOCITY)
    /\ horizontalSpeed = U(DEFAULT_VELOCITY)
    /\ verticalSpeed = 0
    /\ speedControlMode = "combined"
    /\ predictions = EmptyPredictions
    /\ isAnimating = FALSE
    /\ bucketHit = FALSE
    /\ showBucketResult = FALSE
    /\ energyData = ZeroEnergy
    /\ finalEnergyData = NoEnergy
    /\ predictionResults = <<>>
    /\ showResultsModal = FALSE
    /\ initialEnergyRef = 0
    /\ pathPoints = <<>>
    /\ ball = NoBall
    /\ frame = FALSE
    /\ lastTick = NoTick
    /\ currentPoints = <<>>
    /\ drawMode = "line"
    /\ bucketPlacementMode = FALSE
    /\ simulationModel = NewModel
    /\ probe = [call |-> "new"]

NextModel == addSegment \/ start \/ updateState \/ reset

SpecModel == InitModel /\ [][NextModel]_vars

----------------------------------------------------------------------------
(* Properties of the run (Spec) *)

\* the configuration of Scenario 1: the vertical drop from rest, friction
\* 0.98, no bucket
Scenario1 ==
    /\ path = VerticalDrop
    /\ bucket = NoBucket
    /\ friction = 98
    /\ IF speedControlMode = "separate"
       THEN horizontalSpeed = 0 /\ verticalSpeed = 0
       ELSE initialVelocity = 0

\* C1: in Scenario 1 the ball keeps x = 100, and when the run has settled
\* the ball is at y = 635 with final kinetic energy 0, final potential
\* energy 0 and final energyLoss equal to the initial total energy.
C1_VerticalDropSettlesOnGround ==
    (Scenario1 /\ lastTick # NoTick) =>
        /\ ball.ballX = U(100)
        /\ lastTick.settled =>
              /\ ball.ballY = U(GROUND_Y - BALL_RADIUS)
              /\ finalEnergyData # NoEnergy
              /\ finalEnergyData.kineticEnergy = 0
              /\ finalEnergyData.potentialEnergy = 0
              /\ finalEnergyData.energyLoss = initialEnergyRef

\* a step of runSimulation: it keeps the path, which clearAll empties
RunStep == ~isAnimating /\ path # <<>> /\ path' = path /\ vars' # vars

\* a step that is one call of animate: the first one, made by runSimulation,
\* or a later one, which changes the ball (stopSimulation does not)
TickStep == IF isAnimating THEN frame /\ ball' # ball ELSE RunStep

\* velocityX before the tick
VelocityXBefore ==
    IF isAnimating THEN ball.velocityX
    ELSE IF speedControlMode = "separate" THEN horizontalSpeed
    ELSE initialVelocity

\* A tick of free fall on which friction does not damp: no bucket capture,
\* no ground contact and no path contact point on the tick, and
\* velocityX * friction = velocityX.  Friction 1.0 does that for every
\* velocityX; the slider stops at 0.99, which does it for velocityX = 0.
FreeFallTick ==
    /\ TickStep
    /\ friction = 100 \/ VelocityXBefore = 0
    /\ ~lastTick'.bucketRule
    /\ ~lastTick'.groundRule
    /\ ~lastTick'.contact

\* total energy before the tick: the initial one before the first tick
TotalBefore == IF isAnimating THEN energyData.totalEnergy ELSE initialEnergyRef'

C3_GroundClamp ==
    /\ lastTick # NoTick => ball.ballY <= U(GROUND_Y - BALL_RADIUS)
    /\ energyData.potentialEnergy >= 0
    /\ finalEnergyData # NoEnergy => finalEnergyData.potentialEnergy >= 0

\* a ball that rolls on the ground: the ground rule acted on a later tick
\* than the one of first contact
C3_Witness ==
    /\ frame
    /\ lastTick.groundRule
    /\ ~lastTick.contact
    /\ ball.velocityX # 0
    /\ ball.ballY = U(GROUND_Y - BALL_RADIUS)
    /\ energyData.potentialEnergy = 2 * BALL_MASS * GRAVITY * U(BALL_RADIUS)

\* C4: once the bucket has captured the ball (isHit true), the ball is pinned
\* on the bucket's top edge with zero velocity, the capture tick applied
\* neither the ground rule nor the path rule, and the run has ended with that
\* tick, so that no later tick of the run moves the ball or resets isHit.
C4_CaptureIsSticky ==
    (bucket # NoBucket /\ bucket.isHit) =>
        /\ bucketHit
        /\ ball.ballInBucket
        /\ ball.ballY = (bucket.y - bucket.height) - U(BALL_RADIUS)
        /\ ball.velocityX = 0
        /\ ball.velocityY = 0
        /\ lastTick.bucketRule
        /\ ~lastTick.groundRule
        /\ ~lastTick.contact
        /\ lastTick.settled
        /\ ~frame
        /\ ~isAnimating

\* a ball captured while moving
C4_Witness ==
    /\ bucket # NoBucket
    /\ bucket.isHit
    /\ ball.ballInBucket
    /\ energyData.totalEnergy < initialEnergyRef

\* the ball's centre is in the horizontal band of the bucket
InBand(x) == x >= bucket.x - bucket.width \div 2 /\ x <= bucket.x + bucket.width \div 2

\* a tick on which a ball that the ground rule holds at
\* y = GROUND_Y - BALL_RADIUS rolls into the band of a bucket centred at 300
RollsIntoBand ==
    /\ frame
    /\ bucket # NoBucket
    /\ bucket.x = U(300)
    /\ lastTick.groundRule
    /\ ball.ballY = U(GROUND_Y - BALL_RADIUS)
    /\ ball.velocityY = 0
    /\ ball' # ball
    /\ ~InBand(ball.ballX)
    /\ InBand(ball'.ballX)

\* C5: when a ball rolling on the ground enters the band [260, 340] of the
\* bucket before the run settles, isHit becomes true and both velocity
\* components are zero at the end of that tick.
C5_RollingBallIsCaptured ==
    [][RollsIntoBand =>
         /\ bucket'.isHit
         /\ ball'.velocityX = 0
         /\ ball'.velocityY = 0]_vars

----------------------------------------------------------------------------
(* Properties of the scorer (SpecScore); p and a are the probed predicted *)
(* and actual numbers, in hundredths                                       *)

\* C6: accuracy(a, a) = 100 and isCorrect(a, a) = true for every nonzero a.
C6_ExactPredictionScoresFull ==
    (probe.scored /\ probe.predicted.n = probe.actual.n /\ probe.actual.n # 0) =>
        /\ probe.isCorrect
        /\ ~probe.accuracy.nan
        /\ probe.accuracy.n = probe.accuracy.d

\* Scenario 3: predicted 10 against actual 10
C6_Witness ==
    /\ probe.scored
    /\ probe.predicted.n = 1000
    /\ probe.actual.n = 1000
    /\ probe.isCorrect

\* C7: accuracy is 100 when actual = 0 and predicted = 0, 0 when actual = 0
\* and predicted # 0, and max(0, 100 - |predicted - actual| / |actual| * 100)
\* otherwise; it always lies in [0, 100].
C7_AccuracyFormula ==
    probe.scored =>
        LET p   == probe.predicted.n
            a   == probe.actual.n
            acc == probe.accuracy
        IN  /\ ~acc.nan
            /\ acc.d > 0
            /\ 0 <= acc.n
            /\ acc.n <= acc.d
            /\ a = 0 /\ p = 0 => acc.n = acc.d
            /\ a = 0 /\ p # 0 => acc.n = 0
            /\ a # 0 /\ Abs(p - a) >= Abs(a) => acc.n = 0
            /\ a # 0 /\ Abs(p - a) < Abs(a) =>
                  acc.n * Abs(a) = acc.d * (Abs(a) - Abs(p - a))

\* a prediction further from actual than |actual|, where the floor at 0 acts
C7_Witness ==
    /\ probe.scored
    /\ probe.actual.n # 0
    /\ Abs(probe.predicted.n - probe.actual.n) > Abs(probe.actual.n)
    /\ probe.accuracy.n = 0

\* C8: isCorrect is true exactly when actual = 0 and |predicted| < 0.1, or
\* actual # 0 and |predicted - actual| / |actual| <= 10%; predicted 5
\* against actual 0 gives isCorrect = false and accuracy = 0.
C8_IsCorrectRule ==
    probe.scored =>
        LET p == probe.predicted.n
            a == probe.actual.n
        IN  /\ probe.isCorrect <=>
                  \/ a = 0 /\ Abs(p) < 10
                  \/ a # 0 /\ 10 * Abs(p - a) <= Abs(a)
            /\ a = 0 /\ p = 500 => ~probe.isCorrect /\ probe.accuracy.n = 0

\* a relative error of exactly 10%, counted as correct
C8_Witness ==
    /\ probe.scored
    /\ probe.actual.n = 20
    /\ probe.predicted.n = 22
    /\ probe.isCorrect

----------------------------------------------------------------------------
(* Properties of evaluatePredictions (SpecEval) *)

FixedOrder ==
    <<[field |-> "initialTotalEnergy", metric |-> "Initial Total Energy"],
      [field |-> "finalTotalEnergy",   metric |-> "Final Total Energy"],
      [field |-> "energyLoss",         metric |-> "Energy Loss"],
      [field |-> "efficiency",         metric |-> "Efficiency"]>>

\* the metrics of the populated fields, in the fixed order
RECURSIVE PopulatedMetrics(_)
PopulatedMetrics(k) ==
    IF k = 0 THEN <<>>
    ELSE PopulatedMetrics(k - 1)
           \o (IF predictions[FixedOrder[k].field] # <<>>
               THEN <<FixedOrder[k].metric>> ELSE <<>>)

\* C9: the scorer produces exactly one result for each populated entry and
\* none for the others, in the order initial total energy, final total
\* energy, energy loss, efficiency; with no populated entry the list is
\* empty.
C9_OneResultPerPopulatedEntry ==
    probe.scored =>
        /\ [i \in 1..Len(predictionResults) |-> predictionResults[i].metric]
             = PopulatedMetrics(4)
        /\ (\A f \in Fields : predictions[f] = <<>>) => predictionResults = <<>>

\* the text "0" and a text that is no number among three populated entries,
\* the first entry left empty
C9_Witness ==
    /\ probe.scored
    /\ predictions.initialTotalEnergy = <<>>
    /\ predictions.finalTotalEnergy = <<"0">>
    /\ predictions.energyLoss = <<"a", "b">>
    /\ predictions.efficiency = <<"9", ".", "5">>
    /\ Len(predictionResults) = 3

----------------------------------------------------------------------------
(* Properties of starting, sampling and ending a run *)

\* the state a run works on
RunState ==
    <<isAnimating, ball, finalEnergyData, predictionResults, bucketHit,
      lastTick, frame>>

\* C11: with a path of zero segments no run starts: no tick executes and
\* the animating flag, the ball, the final snapshot, the prediction results
\* and the bucket hit flag stay as they are.
C11_EmptyPathRefused ==
    [][path = <<>> => RunState' = RunState]_vars

\* the path has been cleared after a run; what the run left is still there
C11_Witness ==
    /\ path = <<>>
    /\ ~isAnimating
    /\ ~frame
    /\ lastTick # NoTick
    /\ finalEnergyData = NoEnergy

\* C12: for a path of at least one segment, each of at least two points,
\* getPathPoints returns a non-empty sequence whose first point is the first
\* control point of the first segment; it returns the empty sequence only
\* for the path of zero segments.
C12_SampleStartsAtFirstPoint ==
    probe.sampled =>
        /\ path # <<>> =>
              /\ pathPoints # <<>>
              /\ pathPoints[1] = path[1].points[1]
              /\ Len(pathPoints) >= 2 * Len(path)
        /\ pathPoints = <<>> => path = <<>>

\* a sampled path of two segments that starts at x = 0
C12_Witness ==
    /\ probe.sampled
    /\ Len(path) = 2
    /\ path[1].type = "curve"
    /\ path[1].points[1] = P(0, 50)
    /\ path[1].points[2] = P(30, 90)
    /\ Len(pathPoints) > CURVE_STEPS

\* C13: a tick that ends with |vx| < 0.1 and |vy| < 0.1 sets both velocity
\* components to 0, computes the final snapshot from that zero velocity
\* (kinetic 0, total = potential) and ends the run; a tick that ends with
\* |vx| >= 0.1 or |vy| >= 0.1 does not settle and schedules another tick.
C13_HaltSnapsVelocity ==
    [][TickStep =>
         IF /\ Abs(lastTick'.velocityX) < STOP_SPEED
            /\ Abs(lastTick'.velocityY) < STOP_SPEED
         THEN /\ ball'.velocityX = 0
              /\ ball'.velocityY = 0
              /\ finalEnergyData' # NoEnergy
              /\ finalEnergyData'.kineticEnergy = 0
              /\ finalEnergyData'.totalEnergy = finalEnergyData'.potentialEnergy
              /\ finalEnergyData'.potentialEnergy
                   = 2 * BALL_MASS * GRAVITY * (U(GROUND_Y) - ball'.ballY)
              /\ energyData' = finalEnergyData'
              /\ ~isAnimating'
              /\ ~frame'
         ELSE /\ ball'.velocityX = lastTick'.velocityX
              /\ ball'.velocityY = lastTick'.velocityY
              /\ finalEnergyData' = NoEnergy
              /\ isAnimating'
              /\ frame']_vars

\* a run settled by a tick that ended with a velocityX that was not 0 but
\* below 0.1
C13_Witness ==
    /\ lastTick # NoTick
    /\ lastTick.velocityX # 0
    /\ Abs(lastTick.velocityX) < STOP_SPEED
    /\ lastTick.velocityY = 0
    /\ ball.velocityX = 0
    /\ finalEnergyData # NoEnergy
    /\ ~isAnimating

\* the populated prediction fields
PopulatedFields == {f \in Fields : predictions[f] # <<>>}

C16_StopScoresLastSnapshot ==
    (path # <<>> /\ ~isAnimating /\ lastTick # NoTick /\ ~lastTick.settled) =>
        /\ finalEnergyData = energyData
        /\ Len(predictionResults) = Cardinality(PopulatedFields)

StartX ==
    IF pathPoints' # <<>> /\ pathPoints'[1].x # 0
    THEN pathPoints'[1].x ELSE U(CANVAS_WIDTH) \div 2

XBefore == IF isAnimating THEN ball.ballX ELSE StartX

YBefore == IF isAnimating THEN ball.ballY ELSE U(START_Y)

VelocityYBefore ==
    IF isAnimating THEN ball.velocityY
    ELSE IF speedControlMode = "separate" THEN verticalSpeed
    ELSE 0

\* C18: every run starts from a reset state, however the previous run
\* ended: the sampled path is that of the current path, the ball starts at
\* y = 50 with the configured velocity, not grounded and not captured,
\* isHit and the bucket hit flag are false, the final snapshot is cleared
\* and the result list is empty.
C18_RunStartsReset ==
    [][RunStep =>
         /\ pathPoints' = getPathPoints(path)
         /\ initialEnergyRef'
              = BALL_MASS * (VelocityXBefore * VelocityXBefore
                               + VelocityYBefore * VelocityYBefore)
                  + 2 * BALL_MASS * GRAVITY * U(GROUND_Y - START_Y)
         /\ ~lastTick'.bucketRule =>
               /\ ~bucketHit'
               /\ bucket' # NoBucket => ~bucket'.isHit
         /\ ~lastTick'.settled =>
               /\ finalEnergyData' = NoEnergy
               /\ predictionResults' = <<>>
               /\ ~showResultsModal'
         /\ (~lastTick'.bucketRule /\ ~lastTick'.groundRule /\ ~lastTick'.contact) =>
               /\ ball'.ballX = StartX + VelocityXBefore
               /\ ball'.ballY = U(START_Y) + VelocityYBefore + GRAVITY
               /\ lastTick'.velocityY = VelocityYBefore + GRAVITY
               /\ ~ball'.onGround
               /\ ~ball'.ballInBucket]_vars

\* a run with a bucket after its first tick, made in free fall from y = 50
C18_Witness ==
    /\ isAnimating
    /\ frame
    /\ bucket # NoBucket
    /\ ~bucket.isHit
    /\ ~bucketHit
    /\ finalEnergyData = NoEnergy
    /\ predictionResults = <<>>
    /\ ball.ballY = U(START_Y) + GRAVITY
    /\ ~ball.onGround

\* C19: on a tick with ground contact and no path contact the velocityX at
\* the end of the tick is the one at its start times friction times
\* friction; on a tick in the air with no contact it is the one at its start
\* times friction; on the tick of the capture it is 0, no friction applied.
C19_FrictionOncePerTick ==
    [][TickStep =>
         /\ lastTick'.bucketRule =>
               lastTick'.velocityX = 0
         /\ (~lastTick'.bucketRule /\ lastTick'.groundRule /\ ~lastTick'.contact) =>
               lastTick'.velocityX
                 = TDiv(TDiv(VelocityXBefore * friction, 100) * friction, 100)
         /\ (~lastTick'.bucketRule /\ ~lastTick'.groundRule /\ ~lastTick'.contact) =>
               lastTick'.velocityX = TDiv(VelocityXBefore * friction, 100)]_vars

\* a ball rolling on the ground, off the path, with friction 0.98
C19_Witness ==
    /\ frame
    /\ friction = 98
    /\ lastTick.groundRule
    /\ ~lastTick.contact
    /\ ~lastTick.bucketRule
    /\ lastTick.velocityX >= U(1)

\* the position after integration
XIntegrated == XBefore + VelocityXBefore

YIntegrated == YBefore + VelocityYBefore + GRAVITY

\* containment of the position after integration, all bounds inclusive
Contained ==
    /\ bucket # NoBucket
    /\ XIntegrated >= bucket.x - U(BUCKET_WIDTH) \div 2
    /\ XIntegrated <= bucket.x + U(BUCKET_WIDTH) \div 2
    /\ YIntegrated + U(BALL_RADIUS) >= bucket.y - U(BUCKET_HEIGHT)
    /\ YIntegrated + U(BALL_RADIUS) <= bucket.y

\* C20: on a tick where a bucket exists and the position after integration
\* satisfies containment, the ball is pinned at y = bucket top - BALL_RADIUS
\* with velocity (0, 0), isHit is set, and neither the ground rule, the path
\* rule nor friction is applied on that tick.
C20_CapturePreempts ==
    [][(TickStep /\ Contained) =>
         /\ ball' = [ballX |-> XIntegrated,
                     ballY |-> bucket.y - U(BUCKET_HEIGHT) - U(BALL_RADIUS),
                     velocityX |-> 0, velocityY |-> 0,
                     onGround |-> TRUE, ballInBucket |-> TRUE]
         /\ bucket'.isHit
         /\ bucketHit'
         /\ lastTick'.bucketRule
         /\ ~lastTick'.groundRule
         /\ ~lastTick'.contact
         /\ ~lastTick'.clamp
         /\ lastTick'.nudge = 0
         /\ lastTick'.velocityX = 0
         /\ lastTick'.velocityY = 0]_vars

\* a ball captured with its centre on the left bound of the bucket
C20_Witness ==
    /\ bucket # NoBucket
    /\ bucket.isHit
    /\ lastTick.bucketRule
    /\ ball.ballInBucket
    /\ ball.ballX = bucket.x - U(BUCKET_WIDTH) \div 2
    /\ ball.ballY = U(GROUND_Y - BUCKET_HEIGHT - BALL_RADIUS)

\* a ball captured on a tick where the ground condition held as well: it
\* rolled on the ledge and its bottom edge was at GROUND_Y after integration
C20_WitnessOnGround ==
    /\ path = Ledge
    /\ bucket # NoBucket
    /\ bucket.isHit
    /\ lastTick.bucketRule
    /\ ball.ballInBucket
    /\ ball.ballX > bucket.x - U(BUCKET_WIDTH) \div 2
    /\ ball.ballX < bucket.x - U(BUCKET_WIDTH) \div 2 + U(BALL_RADIUS)

\* the pairs of sampled points, in path order
Pairs == 1..(Len(pathPoints) - 1)

BallPos == Pt(ball.ballX, ball.ballY)

\* the pair i is within BALL_RADIUS + 3 of the ball centre
Within(i) ==
    PairDist2(BallPos, pathPoints, i)
        < U(BALL_RADIUS + CONTACT_MARGIN) * U(BALL_RADIUS + CONTACT_MARGIN)

\* c is a point of the box spanned by the pair i
OnPair(c, i) ==
    /\ c.x >= Min(pathPoints[i].x, pathPoints[i + 1].x)
    /\ c.x <= Max(pathPoints[i].x, pathPoints[i + 1].x)
    /\ c.y >= Min(pathPoints[i].y, pathPoints[i + 1].y)
    /\ c.y <= Max(pathPoints[i].y, pathPoints[i + 1].y)

\* C21: getCollisionPoint returns the clamped closest point of the first
\* pair of sampled points, in path order, whose distance from the ball centre
\* to that point is below BALL_RADIUS + 3, whether or not a later pair is
\* closer; it returns no contact exactly when no pair is within that
\* distance, a sampled path of fewer than 2 points included.
C21_FirstPairInContact ==
    probe.called =>
        IF probe.collision = NoPoint
        THEN \A i \in Pairs : ~Within(i)
        ELSE \E i \in Pairs :
                /\ Within(i)
                /\ \A j \in Pairs : j < i => ~Within(j)
                /\ probe.collision
                     = ClosestOnPair(BallPos, pathPoints[i], pathPoints[i + 1])
                /\ OnPair(probe.collision, i)
                /\ Dist2(BallPos.x - probe.collision.x,
                         BallPos.y - probe.collision.y)
                     = PairDist2(BallPos, pathPoints, i)

\* a contact returned although a later pair is strictly closer to the ball
C21_Witness ==
    /\ probe.called
    /\ probe.collision # NoPoint
    /\ \E j \in Pairs :
          PairDist2(BallPos, pathPoints, j)
            < Dist2(BallPos.x - probe.collision.x, BallPos.y - probe.collision.y)

\* no contact for a ball that is 18 or more away from every pair
C21_WitnessNone ==
    /\ probe.called
    /\ probe.collision = NoPoint
    /\ Len(pathPoints) >= 2

\* a tick of a ball that is not captured on which a contact point is found
PathTick == TickStep /\ lastTick'.contact

\* what the path clamp does to the ball the ground rule handed over
Clamped ==
    /\ ball'.ballY = lastTick'.collision.y - U(BALL_RADIUS)
    /\ lastTick'.velocityY = 0
    /\ ball'.onGround

NotClamped ==
    /\ ball'.ballY = lastTick'.grounded.ballY
    /\ lastTick'.velocityY = lastTick'.grounded.velocityY
    /\ ball'.onGround = lastTick'.grounded.onGround

C22_WitnessNoClamp ==
    /\ lastTick # NoTick
    /\ lastTick.contact
    /\ ~lastTick.clamp
    /\ lastTick.grounded.ballY < lastTick.collision.y - U(BALL_RADIUS)
    /\ lastTick.velocityY # 0

\* index of the sampled point nearest to the ball as the path rule left it
\* (no rule moves the ball in x, and none moves it in y after the path rule)
NearestAfter == NearestIdx(Pt(ball'.ballX, ball'.ballY), pathPoints')

\* C23: the slope nudge is applied on a tick only if a contact point exists
\* on that tick and the grounded flag is true at that moment, and it is then
\* the slope from the nearest sampled point to its successor; on a tick of a
\* ball that is not captured with no contact point the grounded flag is
\* false at the end of the tick, whatever the ground rule did before, and
\* velocityX is changed by friction only.
C23_NudgeNeedsContactAndGrounded ==
    [][TickStep =>
         /\ lastTick'.nudge # 0 => lastTick'.contact /\ ball'.onGround
         /\ (lastTick'.contact /\ ~ball'.onGround) => lastTick'.nudge = 0
         /\ (lastTick'.contact /\ ball'.onGround) =>
               lastTick'.nudge
                 = IF NearestAfter < Len(pathPoints')
                   THEN SlopeAt(pathPoints', NearestAfter) ELSE 0
         /\ (~lastTick'.bucketRule /\ ~lastTick'.contact) =>
               /\ ~ball'.onGround
               /\ lastTick'.nudge = 0
               /\ lastTick'.velocityX
                    = Damp(lastTick'.grounded.velocityX, friction)
               /\ lastTick'.grounded.velocityX
                    = IF lastTick'.groundRule
                      THEN Damp(VelocityXBefore, friction)
                      ELSE VelocityXBefore]_vars

\* a ball the ground rule has grounded on a tick with no contact point: the
\* flag is false at the end of the tick
C23_Witness ==
    /\ lastTick # NoTick
    /\ frame
    /\ lastTick.groundRule
    /\ lastTick.grounded.onGround
    /\ ~lastTick.contact
    /\ ~ball.onGround
    /\ lastTick.velocityX # 0

\* a contact on a slope that does not nudge: the ball is not grounded
C23_WitnessAirborne ==
    /\ lastTick # NoTick
    /\ lastTick.contact
    /\ ~ball.onGround
    /\ path = Ramp
    /\ lastTick.nudge = 0

\* a nudge on a slope
C23_WitnessNudge ==
    /\ lastTick # NoTick
    /\ lastTick.contact
    /\ ball.onGround
    /\ lastTick.nudge # 0

\* every sealed segment has at least 2 points, and a run that is running has
\* a path of at least 1 segment
ValidPath ==
    /\ \A i \in 1..Len(path) : Len(path[i].points) >= 2
    /\ isAnimating => Len(path) >= 1

\* a step that seals a segment
Seals == Len(path') > Len(path)

C25_CorrectImpliesAccurate ==
    (probe.scored /\ probe.isCorrect) =>
        /\ ~probe.accuracy.nan
        /\ 10 * probe.accuracy.n >= 9 * probe.accuracy.d

\* C26: a run settles only on a tick on which the bucket rule, the ground
\* rule or the path rule acted: a tick of free flight, with no capture, no
\* ground contact and no path contact, never settles the run.
C26_SettlesOnlyOnContact ==
    [][(TickStep /\ lastTick'.settled) =>
         \/ lastTick'.bucketRule
         \/ lastTick'.groundRule
         \/ lastTick'.contact]_vars

\* a step of runSimulation among the editing steps, which keep the last run's
\* tick, ball and sampled path
EditRunStep ==
    /\ ~isAnimating
    /\ \/ isAnimating'
       \/ lastTick' # lastTick
       \/ ball' # ball
       \/ pathPoints' # pathPoints

\* C27: at the start of every run the ball is at the x of the first sampled
\* point of the path, whatever that x is, 0 included, and at y = 50: after
\* the first tick, which moves it by its velocity, it is at that x plus
\* velocityX, and at y = 50 + velocityY + GRAVITY unless a rule moved it.
C27_StartsAtFirstPathPoint ==
    [][EditRunStep =>
         /\ pathPoints' # <<>>
         /\ pathPoints'[1] = path[1].points[1]
         /\ ball'.ballX = pathPoints'[1].x + VelocityXBefore
         /\ lastTick'.bucketRule \/ lastTick'.groundRule \/ lastTick'.clamp
               \/ ball'.ballY = U(START_Y) + VelocityYBefore + GRAVITY]_vars

\* C28: the tick of the capture is the last tick of the run: the stop check
\* holds on it, the run has settled, the final snapshot has kinetic energy 0
\* and potential energy m * g * (BUCKET_HEIGHT + BALL_RADIUS), and the x of
\* the ball is the one integration gave it.
C28_CaptureEndsRun ==
    [][(TickStep /\ lastTick'.bucketRule) =>
         /\ lastTick'.velocityX = 0
         /\ lastTick'.velocityY = 0
         /\ lastTick'.settled
         /\ ~isAnimating'
         /\ ~frame'
         /\ finalEnergyData' # NoEnergy
         /\ finalEnergyData'.kineticEnergy = 0
         /\ finalEnergyData'.potentialEnergy
              = 2 * BALL_MASS * GRAVITY * U(BUCKET_HEIGHT + BALL_RADIUS)
         /\ finalEnergyData'.totalEnergy = finalEnergyData'.potentialEnergy
         /\ ball'.ballX = XIntegrated]_vars

\* a run ended by a capture, after more than one tick, with its final snapshot
C28_Witness ==
    /\ lastTick # NoTick
    /\ lastTick.bucketRule
    /\ lastTick.settled
    /\ ~isAnimating
    /\ finalEnergyData # NoEnergy
    /\ finalEnergyData.kineticEnergy = 0
    /\ finalEnergyData.energyLoss > 0
    /\ ball.ballX # pathPoints[1].x

----------------------------------------------------------------------------
(* Properties of SimulationModel (SpecModel) *)

\* a step that is a call of updateState, with the deltaTime it was given
UpdateCall == probe'.call = "updateState"

\* the y the call computes before it tests y <= 0
YUpdated ==
    simulationModel.ball.position.y
      - MODEL_GRAVITY * simulationModel.path[1].sin * probe'.deltaTime
          * (simulationModel.ball.velocity.x
               + (10 * simulationModel.path[1].sin
                    - simulationModel.path[1].cos
                        * simulationModel.path[1].frictionCoefficient)
                   * probe'.deltaTime)

\* C29: updateState changes the model only while currentState is Running.
\* Called in Ready or Finished it leaves ball, energyLoss, path, budget and
\* currentState as they are, so that only reset() leaves Finished; called in
\* Running with no segment it sets currentState to Finished and leaves the
\* ball and energyLoss as they are; after every call ball.position.y >= 0,
\* and a Running model with a segment enters Finished exactly when the
\* updated y is <= 0.
C29_UpdateStateOnlyWhileRunning ==
    /\ [][UpdateCall =>
             /\ simulationModel.currentState # "Running" =>
                   simulationModel' = simulationModel
             /\ (simulationModel.currentState = "Running"
                   /\ simulationModel.path = <<>>) =>
                   simulationModel'
                     = [simulationModel EXCEPT !.currentState = "Finished"]
             /\ (simulationModel.currentState = "Running"
                   /\ simulationModel.path # <<>>) =>
                   /\ simulationModel'.currentState
                        = IF YUpdated <= 0 THEN "Finished" ELSE "Running"
                   /\ simulationModel'.ball.position.y
                        = IF YUpdated <= 0 THEN 0 ELSE YUpdated
                   /\ simulationModel'.path = simulationModel.path
                   /\ simulationModel'.budget = simulationModel.budget
             /\ simulationModel'.ball.position.y >= 0]_vars
    /\ [][simulationModel.currentState = "Finished" =>
             \/ simulationModel'.currentState = "Finished"
             \/ /\ probe'.call = "reset"
                /\ simulationModel'.currentState = "Ready"]_vars

\* a model that has run down its segment to y = 0 and is Finished
C29_Witness ==
    /\ probe.call = "updateState"
    /\ simulationModel.currentState = "Finished"
    /\ simulationModel.path # <<>>
    /\ simulationModel.ball.position.y = 0
    /\ simulationModel.ball.velocity.x > 0
    /\ simulationModel.energyLoss > 0

\* a model set to Running with no segment, Finished by updateState
C29_WitnessNoSegment ==
    /\ probe.call = "updateState"
    /\ simulationModel.currentState = "Finished"
    /\ simulationModel.path = <<>>
    /\ simulationModel.ball = NewBall

\* C30: for deltaTime > 0, a segment angle in [0, pi / 2] and a friction
\* coefficient >= 0, energyLoss is >= 0 in every reachable state and never
\* decreases across a call of updateState.
C30_EnergyLossNeverDecreases ==
    /\ [](simulationModel.energyLoss >= 0)
    /\ [][UpdateCall =>
             simulationModel'.energyLoss >= simulationModel.energyLoss]_vars

====
